---- MODULE Spec2Model ----
(***************************************************************************)
(* Model of main/run.go of Xray-core (the "run" command): configuration   *)
(* path resolution (getConfigFilePath, readConfDir, getRegepxByFormat),    *)
(* the process lifecycle of executeRun (dump / test / run, the deferred    *)
(* calls, the signal goroutine and the tray goroutine) and the system      *)
(* proxy toggle of background().                                           *)
(*                                                                         *)
(* Strings that the code takes apart are sequences of tokens: a path is a  *)
(* sequence of "/" separators and segment names ("/etc/x" is               *)
(* <<"/", "etc", "/", "x">>, the empty string is <<>>); a directory entry's *)
(* name is one segment, and Chars gives its characters for the regexp.     *)
(***************************************************************************)
EXTENDS Integers, Sequences, FiniteSets, TLC

VARIABLES
    \* ---- package-level variables of run.go (lines 60-79)
    configFiles,      \* cmdarg.Arg: the -config/-c values, then what readConfDir appends
    configDir,        \* -confdir
    format,           \* -format
    dump,             \* -dump
    test,             \* -test
    sysProxyPort,     \* -sysproxy-port
    sysProxyDevice,   \* -sysproxy-device
    \* ---- the environment the code reads
    goos,             \* runtime.GOOS
    fs,               \* the file system: path -> [kind, readable, entries]
    envConfDir,       \* platform.GetConfDirPath()
    envConfigFile,    \* platform.GetConfigurationPath()
    cwd,              \* os.Getwd(): [ok, path]
    home,             \* os.UserHomeDir(): [ok, path]
    flagFiles,        \* the -config/-c values as the flags were parsed (never written)
    \* ---- the last call of getConfigFilePath: [called, fatal, files, scanned]
    resolved,
    \* ---- the process
    pc,               \* where the main flow is in executeRun
    defers,           \* executeRun's deferred calls, in the order they were deferred
    exited,           \* the process has exited
    exitCode,         \* its exit status
    end,              \* the channel `end`: "open" or "closed"
    sigPc,            \* the signal goroutine (lines 124-130)
    osSignals,        \* signals buffered in the osSignals channel (line 125)
    trayPc,           \* the tray goroutine (lines 131-135)
    bgPc,             \* the goroutine of background()
    sysProxyState,    \* background's local variable
    trayIcon,         \* what systray.SetIcon showed last
    trayLabel,        \* the title of the toggle menu item
    clicks,           \* toggle clicks received so far
    osProxy,          \* the OS SOCKS proxy setting of each network device
    trace             \* the external calls made so far, in order

envVars == <<configDir, format, dump, test, sysProxyPort, sysProxyDevice, goos, fs,
             envConfDir, envConfigFile, cwd, home, flagFiles>>

(***************************************************************************)
(* Bounds                                                                  *)
(***************************************************************************)
\* Longest directory listing the path-resolution specification draws.
MaxEntries == 2
\* Most toggle clicks of one run.
MaxClicks == 2

(***************************************************************************)
(* Strings and paths                                                       *)
(***************************************************************************)
Sep == "/"

\* The characters of the names and extensions the model uses.
Chars(s) ==
    CASE s = ".json"   -> <<".", "j", "s", "o", "n">>
      [] s = "A.JSON"  -> <<"A", ".", "J", "S", "O", "N">>
      [] s = "a.json"  -> <<"a", ".", "j", "s", "o", "n">>
      [] s = "b.jsonc" -> <<"b", ".", "j", "s", "o", "n", "c">>
      [] s = "c.toml"  -> <<"c", ".", "t", "o", "m", "l">>
      [] s = "c.yamlx" -> <<"c", ".", "y", "a", "m", "l", "x">>
      [] s = "d.yaml"  -> <<"d", ".", "y", "a", "m", "l">>
      [] s = "e.yml"   -> <<"e", ".", "y", "m", "l">>
      [] s = "f\n.yml" -> <<"f", "\n", ".", "y", "m", "l">>
      [] s = "yml"     -> <<"y", "m", "l">>
      [] s = "json"    -> <<"j", "s", "o", "n">>
      [] s = "jsonc"   -> <<"j", "s", "o", "n", "c">>
      [] s = "toml"    -> <<"t", "o", "m", "l">>
      [] s = "yaml"    -> <<"y", "a", "m", "l">>

\* strings.ToLower on the -format values the model draws.
ToLower(s) ==
    CASE s = "JSON" -> "json"
      [] s = "Yaml" -> "yaml"
      [] s = "TOML" -> "toml"
      [] OTHER      -> s

\* The segments of a path: what lies between its separators, empty ones dropped.
Segments(p) == SelectSeq(p, LAMBDA t : t # Sep)

IsAbs(p) == p # <<>> /\ p[1] = Sep

\* path.Clean on the segments: "." dropped, ".." removes the segment before it
\* (dropped at the root, kept at the start of a relative path).
RECURSIVE CleanSegments(_, _, _)
CleanSegments(segs, rooted, acc) ==
    IF segs = <<>> THEN acc
    ELSE LET s == Head(segs) IN
         IF s = "." THEN CleanSegments(Tail(segs), rooted, acc)
         ELSE IF s = ".." THEN
              IF acc # <<>> /\ acc[Len(acc)] # ".."
              THEN CleanSegments(Tail(segs), rooted, SubSeq(acc, 1, Len(acc) - 1))
              ELSE IF rooted THEN CleanSegments(Tail(segs), rooted, acc)
              ELSE CleanSegments(Tail(segs), rooted, Append(acc, s))
         ELSE CleanSegments(Tail(segs), rooted, Append(acc, s))

\* The segments written with one separator between two of them.
RECURSIVE JoinSegments(_)
JoinSegments(segs) ==
    IF segs = <<>> THEN <<>>
    ELSE IF Len(segs) = 1 THEN segs
    ELSE <<Head(segs), Sep>> \o JoinSegments(Tail(segs))

\* path.Clean / filepath.Clean.
Clean(p) ==
    LET body == JoinSegments(CleanSegments(Segments(p), IsAbs(p), <<>>))
    IN  IF IsAbs(p) THEN <<Sep>> \o body
        ELSE IF body = <<>> THEN <<".">> ELSE body

\* path.Join / filepath.Join of two elements: empty elements are ignored, the
\* others are joined by a separator and the result is cleaned.
Join(a, b) ==
    IF a = <<>> /\ b = <<>> THEN <<>>
    ELSE IF a = <<>> THEN Clean(b)
    ELSE IF b = <<>> THEN Clean(a)
    ELSE Clean(a \o <<Sep>> \o b)

\* filepath.Abs: [ok, path]; a relative path is joined to the working directory.
Abs(p) ==
    IF IsAbs(p) THEN [ok |-> TRUE, path |-> Clean(p)]
    ELSE IF cwd.ok THEN [ok |-> TRUE, path |-> Join(cwd.path, p)]
    ELSE [ok |-> FALSE, path |-> <<>>]

\* const DefaultConfigFileLocation = "~/.xray/config.json"
DefaultConfigFileLocation == <<"~", Sep, ".xray", Sep, "config.json">>

(***************************************************************************)
(* The file system                                                         *)
(***************************************************************************)
NoEntry == [kind |-> "none", readable |-> FALSE, entries |-> <<>>]
RegularFile == [kind |-> "file", readable |-> TRUE, entries |-> <<>>]
Directory(readable, entries) == [kind |-> "dir", readable |-> readable, entries |-> entries]

\* os.Stat(file): the entry at the path, NoEntry when err != nil.
Stat(file) == IF Clean(file) \in DOMAIN fs THEN fs[Clean(file)] ELSE NoEntry

\* func fileExists(file string) bool
fileExists(file) == Stat(file).kind # "none" /\ Stat(file).kind # "dir"

\* func dirExists(file string) bool
dirExists(file) ==
    IF file = <<>> THEN FALSE
    ELSE Stat(file).kind = "dir"

(***************************************************************************)
(* getRegepxByFormat and regexp.MatchString                                *)
(***************************************************************************)
\* func getRegepxByFormat() string: the alternatives of the group of the
\* pattern `^.+\.(alt|...)$` that the -format value selects.
getRegepxByFormat ==
    CASE ToLower(format) = "json" -> {"json", "jsonc"}
      [] ToLower(format) = "toml" -> {"toml"}
      [] ToLower(format) \in {"yaml", "yml"} -> {"yaml", "yml"}
      [] OTHER -> {"json", "jsonc", "toml", "yaml", "yml"}

MatchString_NoEndAnchor(alts, name) ==
    LET s == Chars(name)
        n == Len(s)
    IN  \E alt \in alts : \E e \in 1..n :
          LET k == Len(Chars(alt)) IN
            /\ e >= k + 2
            /\ SubSeq(s, e - k + 1, e) = Chars(alt)
            /\ s[e - k] = "."
            /\ \A i \in 1..(e - k - 1) : s[i] # "\n"

\* regexp.MatchString(`^.+\.(alts)$`, name): from the start of the text one or
\* more characters other than newline, a literal dot, one alternative, and
\* the end of the text.
MatchString(alts, name) ==
    LET s == Chars(name)
        n == Len(s)
    IN  \E alt \in alts :
          LET k == Len(Chars(alt)) IN
            /\ n >= k + 2
            /\ SubSeq(s, n - k + 1, n) = Chars(alt)
            /\ s[n - k] = "."
            /\ \A i \in 1..(n - k - 1) : s[i] # "\n"

(***************************************************************************)
(* readConfDir and getConfigFilePath                                       *)
(***************************************************************************)
\* cmdarg.Arg.Set: appends the value.
ArgSet(c, value) == Append(c, value)

\* The loop of readConfDir over the entries, in the order os.ReadDir gives.
RECURSIVE ScanEntries(_, _, _)
ScanEntries(dirPath, confs, files) ==
    IF confs = <<>> THEN files
    ELSE LET f == Head(confs)
             matched == MatchString(getRegepxByFormat, f)
         IN  ScanEntries(dirPath, Tail(confs),
                         IF matched THEN ArgSet(files, Join(dirPath, <<f>>)) ELSE files)

readConfDir_ReplacesFiles(dirPath, files) ==
    IF ~Stat(dirPath).readable
    THEN [fatal |-> TRUE, files |-> files]
    ELSE [fatal |-> FALSE, files |-> ScanEntries(dirPath, Stat(dirPath).entries, <<>>)]

\* func readConfDir(dirPath string): [fatal, files]; log.Fatalln when
\* os.ReadDir fails, else configFiles with the matching entries appended.
readConfDir(dirPath, files) ==
    IF ~Stat(dirPath).readable
    THEN [fatal |-> TRUE, files |-> files]
    ELSE [fatal |-> FALSE, files |-> ScanEntries(dirPath, Stat(dirPath).entries, files)]

ScannedDir_EnvFirst ==
    IF dirExists(envConfDir) THEN "env"
    ELSE IF dirExists(configDir) THEN "arg"
    ELSE "none"

\* Which directory getConfigFilePath scans: "arg", "env" or "none" (lines 195-205).
ScannedDir ==
    IF dirExists(configDir) THEN "arg"
    ELSE IF dirExists(envConfDir) THEN "env"
    ELSE "none"

DefaultConfigPath_EnvFileFirst ==
    IF fileExists(envConfigFile)
    THEN <<envConfigFile>>
    ELSE IF cwd.ok /\ fileExists(Join(cwd.path, <<"config.json">>))
    THEN <<Join(cwd.path, <<"config.json">>)>>
    ELSE IF ~home.ok
    THEN <<>>
    ELSE <<Join(home.path, Tail(DefaultConfigFileLocation))>>

\* Lines 211-253 of getConfigFilePath: the result when configFiles is empty.
DefaultConfigPath ==
    IF cwd.ok /\ fileExists(Join(cwd.path, <<"config.json">>))
    THEN <<Join(cwd.path, <<"config.json">>)>>
    ELSE IF fileExists(envConfigFile)
    THEN <<envConfigFile>>
    ELSE IF ~home.ok
    THEN <<>>
    ELSE LET relativePath ==
                 IF Len(DefaultConfigFileLocation) > 0 /\ DefaultConfigFileLocation[1] = "~"
                 THEN Join(home.path, Tail(DefaultConfigFileLocation))
                 ELSE <<>>
             absolutePath == Abs(relativePath)
         IN  IF ~absolutePath.ok THEN <<>> ELSE <<absolutePath.path>>

\* func getConfigFilePath(verbose bool) cmdarg.Arg:
\* [fatal, configFiles (the package variable afterwards), files (the result),
\*  scanned (the directories readConfDir was called on)].
getConfigFilePath ==
    LET scan == CASE ScannedDir = "arg" -> readConfDir(configDir, configFiles)
                  [] ScannedDir = "env" -> readConfDir(envConfDir, configFiles)
                  [] OTHER -> [fatal |-> FALSE, files |-> configFiles]
        scanned == CASE ScannedDir = "arg" -> <<configDir>>
                     [] ScannedDir = "env" -> <<envConfDir>>
                     [] OTHER -> <<>>
    IN  IF scan.fatal
        THEN [fatal |-> TRUE, configFiles |-> scan.files, files |-> <<>>,
              scanned |-> scanned]
        ELSE IF Len(scan.files) > 0
        THEN [fatal |-> FALSE, configFiles |-> scan.files, files |-> scan.files,
              scanned |-> scanned]
        ELSE [fatal |-> FALSE, configFiles |-> scan.files, files |-> DefaultConfigPath,
              scanned |-> scanned]

\* What a call of getConfigFilePath leaves in `resolved`.
Resolved(r) ==
    [called |-> TRUE, fatal |-> r.fatal, files |-> r.files, scanned |-> r.scanned]

(***************************************************************************)
(* The flags and the environment a run starts from                         *)
(***************************************************************************)
Devices == {"Wi-Fi", "Ethernet"}

ConfDirArg == <<Sep, "etc", Sep, "xray", Sep, "conf.d">>
ConfDirEnv == <<Sep, "opt", Sep, "xray", Sep, "conf">>
WorkingDir == <<Sep, "srv", Sep, "xray">>
EnvConfigFile == <<Sep, "opt", Sep, "xray", Sep, "bin", Sep, "config.json">>
HomeU == <<Sep, "home", Sep, "u">>
FileBase == <<Sep, "cfg", Sep, "base.json">>
FileExtra == <<Sep, "cfg", Sep, "extra.toml">>

\* What os.ReadDir can list, in the order it lists (sorted by file name).
NamePool == <<".json", "A.JSON", "a.json", "b.jsonc", "c.toml", "c.yamlx",
              "d.yaml", "e.yml", "f\n.yml", "yml">>

\* The names of the pool at the indices of S, in the pool's order.
RECURSIVE ListingFrom(_, _)
ListingFrom(S, i) ==
    IF i > Len(NamePool) THEN <<>>
    ELSE IF i \in S THEN <<NamePool[i]>> \o ListingFrom(S, i + 1)
    ELSE ListingFrom(S, i + 1)

Listings(pool, max) ==
    { ListingFrom(S, 1) : S \in { T \in SUBSET pool : Cardinality(T) <= max } }

Formats == {"auto", "json", "JSON", "toml", "yaml", "yml", "xml"}

\* The state of the process before executeRun has run.
InitProcess ==
    /\ resolved = [called |-> FALSE, fatal |-> FALSE, files |-> <<>>, scanned |-> <<>>]
    /\ pc = "enter"
    /\ defers = <<>>
    /\ exited = FALSE
    /\ exitCode = 0
    /\ end = "open"
    /\ sigPc = "none"
    /\ osSignals = 0
    /\ trayPc = "none"
    /\ bgPc = "none"
    /\ sysProxyState = 1
    /\ trayIcon = "none"
    /\ trayLabel = "none"
    /\ clicks = 0
    /\ osProxy = [d \in Devices |-> [on |-> FALSE, host |-> "", port |-> ""]]
    /\ trace = <<>>

\* The file system holding the two configuration directories, the working
\* directory's config.json and the environment's configuration file.
FileSystem(argDir, envDir, cwdConfig, envFile) ==
    (ConfDirArg :> argDir) @@ (ConfDirEnv :> envDir)
      @@ (Join(WorkingDir, <<"config.json">>) :> cwdConfig) @@ (EnvConfigFile :> envFile)

DirStates(pool, max) ==
    {NoEntry, RegularFile, Directory(FALSE, <<>>)}
      \cup { Directory(TRUE, l) : l \in Listings(pool, max) }

\* The flags and the environment of getConfigFilePath, given as
\* [files, dir, envDir, format, cwd, home, argDir, envDirEntry, cwdConfig, envFile].
InitEnv(e) ==
    /\ configFiles = e.files
    /\ flagFiles = e.files
    /\ configDir = e.dir
    /\ envConfDir = e.envDir
    /\ envConfigFile = EnvConfigFile
    /\ format = e.format
    /\ cwd = e.cwd
    /\ home = e.home
    /\ fs = FileSystem(e.argDir, e.envDirEntry, e.cwdConfig, e.envFile)

HomeOk == [ok |-> TRUE, path |-> HomeU]
HomeErr == [ok |-> FALSE, path |-> <<>>]
CwdOk == [ok |-> TRUE, path |-> WorkingDir]
CwdErr == [ok |-> FALSE, path |-> <<>>]

\* The configurations the lifecycle specification starts from: explicit
\* files only; a -confdir with one file; an unreadable -confdir; nothing but
\* the home default; nothing and no home directory.
PlainEnv ==
    [files |-> <<>>, dir |-> <<>>, envDir |-> <<>>, format |-> "auto", cwd |-> CwdOk,
     home |-> HomeOk, argDir |-> NoEntry, envDirEntry |-> NoEntry, cwdConfig |-> NoEntry,
     envFile |-> NoEntry]

RunEnvs ==
    { [PlainEnv EXCEPT !.files = <<FileBase>>],
      [PlainEnv EXCEPT !.dir = ConfDirArg, !.argDir = Directory(TRUE, <<"a.json">>)],
      [PlainEnv EXCEPT !.files = <<FileBase>>, !.dir = ConfDirArg,
                       !.argDir = Directory(FALSE, <<>>)],
      PlainEnv,
      [PlainEnv EXCEPT !.home = HomeErr] }

\* A run of the launcher: any flags, a few configurations.
Init ==
    /\ InitProcess
    /\ goos \in {"darwin", "linux"}
    /\ dump \in BOOLEAN
    /\ test \in BOOLEAN
    /\ \E flags \in {<<"Wi-Fi", "19800">>, <<"Ethernet", "1080">>} :
         /\ sysProxyDevice = flags[1]
         /\ sysProxyPort = flags[2]
    /\ \E e \in RunEnvs : InitEnv(e)

(***************************************************************************)
(* The external calls                                                      *)
(***************************************************************************)
Event(op, by, device, port, ok) ==
    [op |-> op, by |-> by, device |-> device, port |-> port, ok |-> ok]

\* os.Exit(code): the process ends at once, no deferred call runs; the exit
\* status is the low 8 bits of the code.
Exit(code) ==
    /\ exited' = TRUE
    /\ exitCode' = code % 256

\* networksetup -setsocksfirewallproxy device 127.0.0.1 port
SetTarget(os, device, port, ok) ==
    IF ok THEN [os EXCEPT ![device].host = "127.0.0.1", ![device].port = port] ELSE os

\* networksetup -setsocksfirewallproxystate device on|off
SetState(os, device, on, ok) ==
    IF ok THEN [os EXCEPT ![device].on = on] ELSE os

\* func enableSysProxy(device string, port string): both commands run, whatever
\* the first one returned.
enableSysProxy(by, device, port, ok1, ok2) ==
    /\ osProxy' = SetState(SetTarget(osProxy, device, port, ok1), device, TRUE, ok2)
    /\ trace' = trace \o <<Event("setTarget", by, device, port, ok1),
                           Event("setStateOn", by, device, "", ok2)>>

\* func disableSysProxy(device string)
disableSysProxy(by, device, ok) ==
    /\ osProxy' = SetState(osProxy, device, FALSE, ok)
    /\ trace' = Append(trace, Event("setStateOff", by, device, "", ok))

\* The deferred calls of executeRun.
DeferDisableSysProxy(device) == [fn |-> "disableSysProxy", device |-> device]
DeferServerClose == [fn |-> "server.Close", device |-> ""]

procVars == <<pc, defers, exited, exitCode, end, sigPc, osSignals, trayPc, bgPc,
              sysProxyState,
              trayIcon, trayLabel, clicks, osProxy, trace>>
vars == <<configFiles, envVars, resolved, procVars>>

(***************************************************************************)
(* executeRun: the main flow                                               *)
(***************************************************************************)
\* Lines 82-85: on darwin enable the system proxy and defer its disabling.
ExecuteRunSysProxy ==
    /\ ~exited /\ pc = "enter"
    /\ pc' = "modes"
    /\ IF goos = "darwin"
       THEN /\ \E ok1 \in BOOLEAN, ok2 \in BOOLEAN :
                 enableSysProxy("main", sysProxyDevice, sysProxyPort, ok1, ok2)
            /\ defers' = Append(defers, DeferDisableSysProxy(sysProxyDevice))
       ELSE UNCHANGED <<osProxy, trace, defers>>
    /\ UNCHANGED <<configFiles, envVars, resolved, exited, exitCode, end, sigPc, osSignals, trayPc,
                   bgPc, sysProxyState, trayIcon, trayLabel, clicks>>

\* Lines 87-91 and dumpConfig: resolve the paths, merge, exit with dumpConfig's code.
DumpConfig ==
    /\ ~exited /\ pc = "modes" /\ dump
    /\ LET r == getConfigFilePath IN
         /\ configFiles' = r.configFiles
         /\ resolved' = Resolved(r)
         /\ IF r.fatal
            THEN /\ Exit(1)
                 /\ UNCHANGED trace
            ELSE \E merged \in BOOLEAN :
                   /\ trace' = Append(trace, Event("GetMergedConfig", "main", "", "", merged))
                   /\ Exit(IF merged THEN 0 ELSE 23)
    /\ UNCHANGED <<envVars, pc, defers, end, sigPc, osSignals, trayPc, bgPc, sysProxyState, trayIcon,
                   trayLabel, clicks, osProxy>>

\* Lines 93-99 and startXray: resolve the paths, load the config, create the server.
StartXray ==
    /\ ~exited /\ pc = "modes" /\ ~dump
    /\ LET r == getConfigFilePath IN
         /\ configFiles' = r.configFiles
         /\ resolved' = Resolved(r)
         /\ IF r.fatal
            THEN /\ Exit(1)
                 /\ UNCHANGED <<trace, pc>>
            ELSE \E loaded \in BOOLEAN, created \in BOOLEAN :
                   /\ trace' = trace \o <<Event("LoadConfig", "main", "", "", loaded)>>
                                     \o (IF loaded THEN <<Event("New", "main", "", "", created)>>
                                         ELSE <<>>)
                   /\ IF loaded /\ created
                      THEN /\ pc' = "built"
                           /\ UNCHANGED <<exited, exitCode>>
                      ELSE /\ Exit(23)
                           /\ UNCHANGED pc
    /\ UNCHANGED <<envVars, defers, end, sigPc, osSignals, trayPc, bgPc, sysProxyState, trayIcon,
                   trayLabel, clicks, osProxy>>

\* Lines 101-104: -test stops here.
TestExit ==
    /\ ~exited /\ pc = "built" /\ test
    /\ Exit(0)
    /\ UNCHANGED <<configFiles, envVars, resolved, pc, defers, end, sigPc, osSignals, trayPc, bgPc,
                   sysProxyState, trayIcon, trayLabel, clicks, osProxy, trace>>

\* Lines 101-110: unless -test stopped the run, start the server; defer its
\* closing when it started.
ServerStartUnless(stopped) ==
    /\ ~exited /\ pc = "built" /\ ~stopped
    /\ \E started \in BOOLEAN :
         /\ trace' = Append(trace, Event("Start", "main", "", "", started))
         /\ IF started
            THEN /\ defers' = Append(defers, DeferServerClose)
                 /\ pc' = "go"
                 /\ UNCHANGED <<exited, exitCode>>
            ELSE /\ Exit(-1)
                 /\ UNCHANGED <<defers, pc>>
    /\ UNCHANGED <<configFiles, envVars, resolved, end, sigPc, osSignals, trayPc, bgPc, sysProxyState,
                   trayIcon, trayLabel, clicks, osProxy>>

ServerStart_BeforeTestCheck == ServerStartUnless(FALSE)

ServerStart == ServerStartUnless(test)

\* Lines 122-135: the two go statements, executed when the main flow is at `at`.
GoListenersAt(at) ==
    /\ ~exited /\ pc = at
    /\ sigPc' = "spawned"
    /\ trayPc' = "spawned"
    /\ pc' = "wait"
    /\ UNCHANGED <<configFiles, envVars, resolved, defers, exited, exitCode, end, osSignals,
                   bgPc, sysProxyState, trayIcon, trayLabel, clicks, osProxy, trace>>

GoListeners_BeforeStart == GoListenersAt("built")

\* Lines 122-135 follow server.Start() and defer server.Close() (lines 106-110).
GoListeners == GoListenersAt("go")

\* Line 137: <-end returns once the channel is closed; executeRun returns.
ReceiveEnd ==
    /\ ~exited /\ pc = "wait" /\ end = "closed"
    /\ pc' = "return"
    /\ UNCHANGED <<configFiles, envVars, resolved, defers, exited, exitCode, end, sigPc, osSignals,
                   trayPc, bgPc, sysProxyState, trayIcon, trayLabel, clicks, osProxy, trace>>

NextDeferred_FirstDeferred(d) == d[1]

\* The call a returning function runs next: the one deferred last.
NextDeferred(d) == d[Len(d)]

\* executeRun returning: one deferred call.
RunDeferred ==
    /\ ~exited /\ pc = "return" /\ defers # <<>>
    /\ LET call == NextDeferred(defers) IN
         /\ defers' = SelectSeq(defers, LAMBDA c : c # call)
         /\ IF call.fn = "disableSysProxy"
            THEN \E ok \in BOOLEAN : disableSysProxy("main", call.device, ok)
            ELSE /\ trace' = Append(trace, Event("Close", "main", "", "", TRUE))
                 /\ UNCHANGED osProxy
    /\ UNCHANGED <<configFiles, envVars, resolved, pc, exited, exitCode, end, sigPc, osSignals, trayPc,
                   bgPc, sysProxyState, trayIcon, trayLabel, clicks>>

\* executeRun has returned: the command ends the process with status 0.
Return ==
    /\ ~exited /\ pc = "return" /\ defers = <<>>
    /\ pc' = "returned"
    /\ Exit(0)
    /\ UNCHANGED <<configFiles, envVars, resolved, defers, end, sigPc, osSignals, trayPc, bgPc,
                   sysProxyState, trayIcon, trayLabel, clicks, osProxy, trace>>

(***************************************************************************)
(* The signal goroutine (lines 124-130)                                    *)
(***************************************************************************)
SignalNotify ==
    /\ ~exited /\ sigPc = "spawned"
    /\ sigPc' = "waiting"
    /\ UNCHANGED <<configFiles, envVars, resolved, pc, defers, exited, exitCode, end,
                   osSignals, trayPc, bgPc, sysProxyState, trayIcon, trayLabel, clicks,
                   osProxy, trace>>

\* Line 125: make(chan os.Signal, 1), the capacity of the channel.
OsSignalsCap == 1

\* An interrupt or SIGTERM is delivered to the process: signal.Notify (line
\* 126) relays it to osSignals without blocking, so a signal that finds the
\* buffer full is dropped.  Notify stays registered after the goroutine has
\* returned (run.go never calls signal.Stop).
SignalDelivered ==
    /\ ~exited /\ sigPc \in {"waiting", "done"}
    /\ osSignals < OsSignalsCap
    /\ osSignals' = osSignals + 1
    /\ UNCHANGED <<configFiles, envVars, resolved, pc, defers, exited, exitCode, end, sigPc,
                   trayPc, bgPc, sysProxyState, trayIcon, trayLabel, clicks, osProxy, trace>>

\* Lines 128-129: <-osSignals returns and end is closed; the goroutine then
\* is at `next`.
SignalReceivedThen(next) ==
    /\ ~exited /\ sigPc = "waiting"
    /\ osSignals > 0
    /\ osSignals' = osSignals - 1
    /\ sigPc' = next
    /\ end' = "closed"
    /\ trace' = Append(trace, Event("close(end)", "signal", "", "", TRUE))
    /\ UNCHANGED <<configFiles, envVars, resolved, pc, defers, exited, exitCode, trayPc, bgPc,
                   sysProxyState, trayIcon, trayLabel, clicks, osProxy>>

SignalReceived_Loops == SignalReceivedThen("waiting")

\* Lines 127-130: the goroutine receives one signal and returns.
SignalReceived == SignalReceivedThen("done")

(***************************************************************************)
(* The tray goroutine: systray.Run(onReady, onExit), and background        *)
(***************************************************************************)
\* onReady: the icon, the two menu items, go background(...).
OnReady ==
    /\ ~exited /\ trayPc = "spawned"
    /\ trayPc' = "running"
    /\ trayIcon' = "icon.Data"
    /\ trayLabel' = "Disable"
    /\ bgPc' = "select"
    /\ sysProxyState' = 1
    /\ UNCHANGED <<configFiles, envVars, resolved, pc, defers, exited, exitCode, end, sigPc, osSignals,
                   clicks, osProxy, trace>>

\* case <-quite.ClickedCh: os.Exit(0)
QuitClicked ==
    /\ ~exited /\ bgPc = "select"
    /\ Exit(0)
    /\ trace' = Append(trace, Event("Quit", "background", "", "", TRUE))
    /\ UNCHANGED <<configFiles, envVars, resolved, pc, defers, end, sigPc, osSignals, trayPc, bgPc,
                   sysProxyState, trayIcon, trayLabel, clicks, osProxy>>

\* case <-swithSysProxyState.ClickedCh: the branch on sysProxyState.
ToggleClicked ==
    /\ ~exited /\ bgPc = "select" /\ clicks < MaxClicks
    /\ clicks' = clicks + 1
    /\ bgPc' = IF sysProxyState = 1 THEN "disable" ELSE "enableTarget"
    /\ UNCHANGED <<configFiles, envVars, resolved, pc, defers, exited, exitCode, end, sigPc, osSignals,
                   trayPc, sysProxyState, trayIcon, trayLabel, osProxy, trace>>

\* Line 293: disableSysProxy(*sysProxyDevice)
ToggleDisable ==
    /\ ~exited /\ bgPc = "disable"
    /\ \E ok \in BOOLEAN : disableSysProxy("background", sysProxyDevice, ok)
    /\ bgPc' = "disabled"
    /\ UNCHANGED <<configFiles, envVars, resolved, pc, defers, exited, exitCode, end, sigPc, osSignals,
                   trayPc, sysProxyState, trayIcon, trayLabel, clicks>>

\* Lines 295-297: the disabled icon, the menu item's title, sysProxyState = 0.
ToggleShowDisabledWith(title) ==
    /\ ~exited /\ bgPc = "disabled"
    /\ trayIcon' = "[]byte{1}"
    /\ trayLabel' = title
    /\ sysProxyState' = 0
    /\ bgPc' = "select"
    /\ UNCHANGED <<configFiles, envVars, resolved, pc, defers, exited, exitCode, end, sigPc,
                   osSignals, trayPc, clicks, osProxy, trace>>

ToggleShowDisabled_KeepsTitle == ToggleShowDisabledWith(trayLabel)

\* Line 296: toggle.SetTitle("Enable")
ToggleShowDisabled == ToggleShowDisabledWith("Enable")

\* Line 299, first command of enableSysProxy(device, port).
ToggleEnableTargetOf(device, port) ==
    /\ ~exited /\ bgPc = "enableTarget"
    /\ \E ok \in BOOLEAN :
         /\ osProxy' = SetTarget(osProxy, device, port, ok)
         /\ trace' = Append(trace, Event("setTarget", "background", device, port, ok))
    /\ bgPc' = "enableState"
    /\ UNCHANGED <<configFiles, envVars, resolved, pc, defers, exited, exitCode, end, sigPc, osSignals,
                   trayPc, sysProxyState, trayIcon, trayLabel, clicks>>

ToggleEnableTarget_DefaultPort == ToggleEnableTargetOf(sysProxyDevice, "19800")

\* Line 299: enableSysProxy(*sysProxyDevice, *sysProxyPort)
ToggleEnableTarget == ToggleEnableTargetOf(sysProxyDevice, sysProxyPort)

\* Line 299, second command of enableSysProxy, run when `issue` holds.
ToggleEnableStateIf(issue) ==
    /\ ~exited /\ bgPc = "enableState"
    /\ IF issue
       THEN \E ok \in BOOLEAN :
              /\ osProxy' = SetState(osProxy, sysProxyDevice, TRUE, ok)
              /\ trace' = Append(trace,
                                 Event("setStateOn", "background", sysProxyDevice, "", ok))
       ELSE UNCHANGED <<osProxy, trace>>
    /\ bgPc' = "enabled"
    /\ UNCHANGED <<configFiles, envVars, resolved, pc, defers, exited, exitCode, end, sigPc,
                   osSignals, trayPc, sysProxyState, trayIcon, trayLabel, clicks>>

ToggleEnableState_OnlyAfterTarget ==
    ToggleEnableStateIf(\A i \in DOMAIN trace :
                           (/\ trace[i].op = "setTarget" /\ trace[i].by = "background"
                            /\ \A j \in DOMAIN trace : j > i => trace[j].op # "setTarget")
                               => trace[i].ok)

\* Lines 332-335: the second command runs whatever the first one returned.
ToggleEnableState == ToggleEnableStateIf(TRUE)

\* Lines 301-303: the enabled icon, the title "Disable", sysProxyState = 1.
ToggleShowEnabled ==
    /\ ~exited /\ bgPc = "enabled"
    /\ trayIcon' = "icon.Data"
    /\ trayLabel' = "Disable"
    /\ sysProxyState' = 1
    /\ bgPc' = "select"
    /\ UNCHANGED <<configFiles, envVars, resolved, pc, defers, exited, exitCode, end, sigPc, osSignals,
                   trayPc, clicks, osProxy, trace>>

(***************************************************************************)
(* getConfigFilePath on its own, over many flags and file systems          *)
(***************************************************************************)
ExplicitFiles == {<<>>, <<FileBase>>, <<FileExtra, FileBase>>}

ArgDirChoices(states) ==
    {[dir |-> <<>>, entry |-> NoEntry]} \cup {[dir |-> ConfDirArg, entry |-> d] : d \in states}

EnvDirChoices ==
    {[dir |-> <<>>, entry |-> NoEntry]}
      \cup {[dir |-> ConfDirEnv, entry |-> d] :
               d \in {NoEntry, Directory(FALSE, <<>>)}
                      \cup {Directory(TRUE, l) : l \in Listings({3, 5}, MaxEntries)}}

CwdChoices ==
    {[cwd |-> CwdErr, entry |-> NoEntry]}
      \cup {[cwd |-> CwdOk, entry |-> d] : d \in {NoEntry, RegularFile, Directory(TRUE, <<>>)}}

\* Every listing of the name pool under every format, with the fallback
\* inputs fixed.
ScanEnvs ==
    { [files |-> f, dir |-> d.dir, argDir |-> d.entry, envDir |-> e.dir,
       envDirEntry |-> e.entry, format |-> fm, cwd |-> CwdOk, home |-> HomeOk,
       cwdConfig |-> NoEntry, envFile |-> NoEntry] :
        f \in ExplicitFiles,
        d \in ArgDirChoices(DirStates(1..Len(NamePool), MaxEntries)),
        e \in EnvDirChoices,
        fm \in Formats }

\* Every state of the fallback inputs, with a few directories.
FallbackEnvs ==
    { [files |-> f, dir |-> d.dir, argDir |-> d.entry, envDir |-> e.dir,
       envDirEntry |-> e.entry, format |-> fm, cwd |-> c.cwd, home |-> h,
       cwdConfig |-> c.entry, envFile |-> ef] :
        f \in ExplicitFiles,
        d \in ArgDirChoices({NoEntry, RegularFile, Directory(FALSE, <<>>),
                             Directory(TRUE, <<>>), Directory(TRUE, <<"c.yamlx">>),
                             Directory(TRUE, <<"a.json">>)}),
        e \in EnvDirChoices,
        fm \in {"auto", "toml"},
        c \in CwdChoices,
        h \in {HomeOk, HomeErr},
        ef \in {NoEntry, RegularFile} }

InitResolve ==
    /\ InitProcess
    /\ goos = "linux"
    /\ dump = FALSE
    /\ test = FALSE
    /\ sysProxyDevice = "Wi-Fi"
    /\ sysProxyPort = "19800"
    /\ \E e \in ScanEnvs \cup FallbackEnvs : InitEnv(e)

\* One call of getConfigFilePath; log.Fatalln ends the process with status 1.
CallGetConfigFilePath ==
    /\ ~exited /\ ~resolved.called
    /\ LET r == getConfigFilePath IN
         /\ configFiles' = r.configFiles
         /\ resolved' = Resolved(r)
         /\ IF r.fatal THEN Exit(1) ELSE UNCHANGED <<exited, exitCode>>
    /\ UNCHANGED <<envVars, pc, defers, end, sigPc, osSignals, trayPc, bgPc, sysProxyState, trayIcon,
                   trayLabel, clicks, osProxy, trace>>

NextResolve == CallGetConfigFilePath

SpecResolve == InitResolve /\ [][NextResolve]_vars

Next ==
    \/ ExecuteRunSysProxy
    \/ DumpConfig
    \/ StartXray
    \/ TestExit
    \/ ServerStart
    \/ GoListeners
    \/ ReceiveEnd
    \/ RunDeferred
    \/ Return
    \/ SignalNotify
    \/ SignalDelivered
    \/ SignalReceived
    \/ OnReady
    \/ QuitClicked
    \/ ToggleClicked
    \/ ToggleDisable
    \/ ToggleShowDisabled
    \/ ToggleEnableTarget
    \/ ToggleEnableState
    \/ ToggleShowEnabled

Spec == Init /\ [][Next]_vars

(***************************************************************************)
(* Reading the trace                                                       *)
(***************************************************************************)
Calls(op) == { i \in DOMAIN trace : trace[i].op = op }
CallsBy(op, by) == { i \in Calls(op) : trace[i].by = by }
Succeeded(op) == \E i \in Calls(op) : trace[i].ok
Failed(op) == \E i \in Calls(op) : ~trace[i].ok

\* The main flow has reached <-end (the server runs, the listeners are armed).
ReachedRunning == pc \in {"wait", "return", "returned"}

(***************************************************************************)
(* C1 - C4: the lifecycle                                                  *)
(***************************************************************************)
\* C1: server.Start is called at most once and server.Close at most once;
\* whenever the process has exited after a successful Start (by a signal or
\* by the tray's Quit) Close has been called; Close is never called when
\* Start failed or was not reached.
C1_CloseOnEveryExitAfterStart ==
    /\ Cardinality(Calls("Start")) <= 1
    /\ Cardinality(Calls("Close")) <= 1
    /\ (exited /\ Succeeded("Start")) => Cardinality(Calls("Close")) = 1
    /\ ~Succeeded("Start") => Calls("Close") = {}

\* C2: when a run that reached Running has shut down (by a signal or by the
\* tray's Quit), the shutdown has invoked the "disable system proxy" effect
\* exactly once, whatever the number of toggle clicks before it.
C2_ShutdownDisablesOnce ==
    (goos = "darwin" /\ exited /\ ReachedRunning)
        => Cardinality(CallsBy("setStateOff", "main")) = 1

\* C3: a process that exited on a failure before server.Start was attempted
\* (directory read, config merge, config load, server build) exited with
\* code 23, and one that exited on a failed Start exited with a nonzero code
\* other than 23.
C3_ExitCodeOfFailures ==
    /\ (exited /\ (resolved.fatal \/ Failed("GetMergedConfig") \/ Failed("LoadConfig")
                     \/ Failed("New")))
          => exitCode = 23
    /\ (exited /\ Failed("Start")) => exitCode \notin {0, 23}

\* C4: with -dump the server is never built and never started; with -test
\* and no -dump the server is never started, and the run ends with status 0
\* only after the server was built; with neither flag, once the main flow is
\* past a successful build, Start has been called, after the build.
C4_ModesBuildAndStart ==
    /\ dump => (Calls("LoadConfig") = {} /\ Calls("New") = {} /\ Calls("Start") = {})
    /\ (test /\ ~dump) =>
          /\ Calls("Start") = {}
          /\ (exited /\ exitCode = 0) => Succeeded("New")
    /\ (~dump /\ ~test) =>
          /\ (Succeeded("New") /\ pc # "built") => Calls("Start") # {}
          /\ \A i \in Calls("Start") : \E j \in Calls("New") : j < i /\ trace[j].ok

\* C4 witness: a run with neither flag that built and started the server.
C4_Witness == ~dump /\ ~test /\ Succeeded("New") /\ Succeeded("Start")

(***************************************************************************)
(* C5 - C8: getConfigFilePath                                              *)
(***************************************************************************)
\* The extension a name of the pool ends in ("" when it ends in none of the five).
C7_Extension(name) ==
    CASE name \in {".json", "a.json"}   -> ".json"
      [] name = "b.jsonc"               -> ".jsonc"
      [] name = "c.toml"                -> ".toml"
      [] name = "d.yaml"                -> ".yaml"
      [] name \in {"e.yml", "f\n.yml"}  -> ".yml"
      [] OTHER                          -> ""

\* The extension set of a format selector as the claim gives it.
C7_ClaimedExtensions(fmt) ==
    CASE fmt \in {"json", "JSON"} -> {".json", ".jsonc"}
      [] fmt = "toml"             -> {".toml"}
      [] fmt = "yaml"             -> {".yaml", ".yml"}
      [] OTHER                    -> {".json", ".jsonc", ".toml", ".yaml", ".yml"}

\* The extension set of a format selector with "yml" selecting what "yaml" selects.
C7_AmendedExtensions(fmt) ==
    IF fmt = "yml" THEN {".yaml", ".yml"} ELSE C7_ClaimedExtensions(fmt)

\* Something other than a newline, and no newline, stands before the extension.
C7_PlainStem(name) == name \notin {".json", "f\n.yml"}

C7_ClaimedSelected(fmt, name) == C7_Extension(name) \in C7_ClaimedExtensions(fmt)

C7_AmendedSelected(fmt, name) ==
    C7_Extension(name) \in C7_AmendedExtensions(fmt) /\ C7_PlainStem(name)

\* The paths of the selected entries of a listing, in the listing's order.
RECURSIVE C7_Expected(_, _, _, _)
C7_Expected(dir, listing, fmt, amended) ==
    IF listing = <<>> THEN <<>>
    ELSE LET selected == IF amended THEN C7_AmendedSelected(fmt, Head(listing))
                         ELSE C7_ClaimedSelected(fmt, Head(listing))
         IN  (IF selected THEN <<dir \o <<Sep, Head(listing)>>>> ELSE <<>>)
               \o C7_Expected(dir, Tail(listing), fmt, amended)

IsDirectory(p) == p # <<>> /\ p \in DOMAIN fs /\ fs[p].kind = "dir"

\* C5 (as claimed): with explicit files and no -confdir, getConfigFilePath
\* returns exactly the explicit files, whatever the environment holds.
C5_ExplicitFilesUnchanged ==
    (resolved.called /\ ~resolved.fatal /\ flagFiles # <<>> /\ configDir = <<>>)
        => resolved.files = flagFiles

\* C5 (amended): with explicit files and no -confdir, getConfigFilePath returns
\* the explicit files, unchanged in content and order, followed by the matching
\* entries of the environment-declared directory when that is a directory
\* (the call is fatal when it cannot be read); the working directory and the
\* environment's config file have no influence.
C5_ExplicitFilesThenEnvDir ==
    (resolved.called /\ flagFiles # <<>> /\ configDir = <<>>) =>
        IF IsDirectory(envConfDir) /\ ~fs[envConfDir].readable
        THEN resolved.fatal
        ELSE /\ ~resolved.fatal
             /\ resolved.files =
                  flagFiles \o (IF IsDirectory(envConfDir)
                                THEN C7_Expected(envConfDir, fs[envConfDir].entries,
                                                 format, TRUE)
                                ELSE <<>>)

\* C5 witness: explicit files, no -confdir, and the environment's directory
\* added a file to the result.
C5_Witness ==
    /\ resolved.called /\ ~resolved.fatal /\ flagFiles # <<>> /\ configDir = <<>>
    /\ Len(resolved.files) > Len(flagFiles)
    /\ fs[Join(WorkingDir, <<"config.json">>)].kind = "file"

\* C6: with no explicit file and no file from a directory scan, the result is
\* the single path <cwd>/config.json if that is a file, else the
\* environment's config file if that is a file, else <home>/.xray/config.json
\* (/home/u/.xray/config.json for the home directory /home/u); with no home
\* directory it is empty.
C6_DefaultPrecedence ==
    (resolved.called /\ ~resolved.fatal /\ flagFiles = <<>> /\ configFiles = <<>>) =>
        resolved.files =
            IF cwd.ok /\ fs[cwd.path \o <<Sep, "config.json">>].kind = "file"
            THEN <<cwd.path \o <<Sep, "config.json">>>>
            ELSE IF fs[envConfigFile].kind = "file"
            THEN <<envConfigFile>>
            ELSE IF home.ok /\ home.path = <<Sep, "home", Sep, "u">>
            THEN << <<Sep, "home", Sep, "u", Sep, ".xray", Sep, "config.json">> >>
            ELSE <<>>

\* C6 witness: nothing but the home directory /home/u, and the result is
\* /home/u/.xray/config.json.
C6_Witness ==
    /\ resolved.called /\ flagFiles = <<>> /\ resolved.scanned = <<>>
    /\ fs[envConfigFile].kind = "none"
    /\ resolved.files = << <<Sep, "home", Sep, "u", Sep, ".xray", Sep, "config.json">> >>

\* C7 (as claimed): after a scan the package variable configFiles holds the
\* explicit files followed, in listing order, by exactly the entries whose
\* name ends in an extension of the selector's set (json: .json/.jsonc;
\* toml: .toml; yaml: .yaml/.yml; any other value: all five).
C7_SelectedIffExtension ==
    (resolved.called /\ ~resolved.fatal /\ resolved.scanned # <<>>) =>
        configFiles = flagFiles \o C7_Expected(resolved.scanned[1],
                                               fs[resolved.scanned[1]].entries,
                                               format, FALSE)

\* C7 (amended): the same with the selector "yml" selecting .yaml/.yml like
\* "yaml", and an entry selected only if at least one character, and no
\* newline, stands before the extension.
C7_SelectedIffStemAndExtension ==
    (resolved.called /\ ~resolved.fatal /\ resolved.scanned # <<>>) =>
        configFiles = flagFiles \o C7_Expected(resolved.scanned[1],
                                               fs[resolved.scanned[1]].entries,
                                               format, TRUE)

\* C7 witness: a scanned directory listing c.yamlx after a selected entry,
\* under the selector yaml; c.yamlx is not in the result.
C7_Witness ==
    /\ resolved.called /\ ~resolved.fatal /\ resolved.scanned = <<ConfDirArg>>
    /\ format = "yaml"
    /\ fs[ConfDirArg].entries = <<"c.yamlx", "d.yaml">>
    /\ configFiles = flagFiles \o <<ConfDirArg \o <<Sep, "d.yaml">>>>

\* C8: when the -confdir directory exists it is the one directory scanned;
\* the environment's directory is scanned only when the -confdir directory
\* does not exist; and when explicit files and scan results together are not
\* empty they are the result: the explicit files in their order, then the
\* scan results.
C8_DirectorySources ==
    resolved.called =>
        /\ IsDirectory(configDir) => resolved.scanned = <<configDir>>
        /\ (resolved.scanned # <<>> /\ resolved.scanned[1] = envConfDir)
              => (~IsDirectory(configDir) /\ IsDirectory(envConfDir))
        /\ Len(resolved.scanned) <= 1
        /\ (~resolved.fatal /\ configFiles # <<>>) =>
              /\ resolved.files = configFiles
              /\ Len(resolved.files) >= Len(flagFiles)
              /\ SubSeq(resolved.files, 1, Len(flagFiles)) = flagFiles
              /\ \A i \in (Len(flagFiles) + 1)..Len(resolved.files) :
                    /\ resolved.scanned # <<>>
                    /\ \E n \in 1..Len(fs[resolved.scanned[1]].entries) :
                         resolved.files[i] =
                            resolved.scanned[1] \o <<Sep, fs[resolved.scanned[1]].entries[n]>>

\* C8 witness: the -confdir directory exists and matches nothing, the
\* environment's directory holds a matching file, and the result is the
\* explicit files alone.
C8_Witness ==
    /\ resolved.called /\ ~resolved.fatal
    /\ IsDirectory(configDir) /\ IsDirectory(envConfDir)
    /\ fs[envConfDir].entries = <<"a.json">> /\ format = "auto"
    /\ flagFiles # <<>> /\ resolved.files = flagFiles

(***************************************************************************)
(* C9 - C10: the toggle's arguments and the teardown                       *)
(***************************************************************************)
ProxyCommands == Calls("setTarget") \cup Calls("setStateOn") \cup Calls("setStateOff")

\* C9: every enable issued by a toggle uses the device and the port of the
\* enable issued at process start (the -sysproxy-device and -sysproxy-port
\* values), every disable uses that device, and no other device's setting is
\* touched.
C9_BoundDeviceAndPort ==
    /\ \A i \in ProxyCommands : trace[i].device = sysProxyDevice
    /\ \A i \in Calls("setTarget") : trace[i].port = sysProxyPort
    /\ \A i \in CallsBy("setTarget", "background") :
          \A j \in CallsBy("setTarget", "main") :
              trace[i].device = trace[j].device /\ trace[i].port = trace[j].port
    /\ \A d \in Devices \ {sysProxyDevice} :
          osProxy[d] = [on |-> FALSE, host |-> "", port |-> ""]

\* C9 witness: Enabled -> Disabled -> Enabled has been clicked through, with
\* the proxy bound to a device and port other than the defaults.
C9_Witness ==
    /\ goos = "darwin" /\ sysProxyDevice = "Ethernet" /\ sysProxyPort = "1080"
    /\ clicks = 2 /\ bgPc = "select" /\ sysProxyState = 1
    /\ Cardinality(CallsBy("setTarget", "background")) = 1

\* C10 (as claimed): when a signal-triggered shutdown has returned from
\* executeRun, the "disable system proxy" effect was invoked first and
\* server.Close after it.
C10_DisableThenClose ==
    (goos = "darwin" /\ pc = "returned") =>
        \E i \in CallsBy("setStateOff", "main") : \E j \in Calls("Close") : i < j

\* C10 (amended): the teardown follows a signal and runs the deferred calls
\* last-deferred-first: server.Close is invoked before the main flow's
\* "disable system proxy", and when executeRun has returned both (on darwin;
\* elsewhere Close alone) have been invoked.
C10_CloseThenDisable ==
    /\ \A i \in CallsBy("setStateOff", "main") : \E j \in Calls("Close") : j < i
    /\ \A j \in Calls("Close") : \E s \in Calls("close(end)") : s < j
    /\ pc = "returned" =>
          /\ Calls("Close") # {}
          /\ goos = "darwin" => CallsBy("setStateOff", "main") # {}

\* C10 witness: on darwin a signal-triggered shutdown has returned.
C10_Witness ==
    /\ goos = "darwin" /\ pc = "returned" /\ exited
    /\ Calls("close(end)") # {}

(***************************************************************************)
(* C11 - C19: the listeners, the toggle and the shutdown                   *)
(***************************************************************************)
\* C11: a toggle handled concurrently with a signal-triggered shutdown
\* leaves the OS proxy off: when executeRun has returned (every proxy
\* command having succeeded) the proxy of the device is off, and no enable
\* command of the toggle (set-target or set-state-on) was issued after the
\* main flow's shutdown-time disable.
C11_OffAfterShutdownUnderToggle ==
    (goos = "darwin" /\ pc = "returned" /\ \A i \in ProxyCommands : trace[i].ok) =>
        /\ ~osProxy[sysProxyDevice].on
        /\ \A i \in CallsBy("setStateOff", "main") :
              \A j \in CallsBy("setTarget", "background")
                         \cup CallsBy("setStateOn", "background") : j < i

\* C12: the signal and the tray's Quit raise the same termination event:
\* when a run that reached Running has exited, end was closed exactly once
\* and the main flow, released from <-end, has run its shutdown steps and
\* returned.
C12_BothTriggersReleaseMain ==
    (exited /\ ReachedRunning) =>
        /\ Cardinality(Calls("close(end)")) = 1
        /\ end = "closed"
        /\ pc = "returned"
        /\ Calls("Close") # {}

\* C13: on every exit before Running (dump, test, configuration or build
\* failure, Start failure, directory-read failure) the launcher does not
\* leave the OS proxy enabled: every set-state-on it issued is followed by a
\* set-state-off before the exit.
C13_EarlyExitDisablesProxy ==
    (exited /\ ~ReachedRunning) =>
        \A i \in Calls("setStateOn") : \E j \in Calls("setStateOff") : i < j

\* C14: whenever background waits for the next click, the tray shows the
\* in-memory state: sysProxyState = 1 iff the menu item reads "Disable" and
\* the icon is the enabled glyph, sysProxyState = 0 iff it reads "Enable"
\* and the icon is the disabled glyph; each handled toggle click has flipped
\* the state and issued the commands of the new state and no others (the
\* disable on the odd clicks, the two enable commands on the even ones).
C14_TrayShowsState ==
    bgPc = "select" =>
        /\ sysProxyState \in {0, 1}
        /\ sysProxyState = 1 <=> (trayLabel = "Disable" /\ trayIcon = "icon.Data")
        /\ sysProxyState = 0 <=> (trayLabel = "Enable" /\ trayIcon = "[]byte{1}")
        /\ sysProxyState = (clicks + 1) % 2
        /\ Cardinality(CallsBy("setStateOff", "background")) = (clicks + 1) \div 2
        /\ Cardinality(CallsBy("setTarget", "background")) = clicks \div 2
        /\ Cardinality(CallsBy("setStateOn", "background")) = clicks \div 2

\* C14 witness: one toggle click has been handled, the tray shows Disabled.
C14_Witness ==
    /\ bgPc = "select" /\ clicks = 1 /\ sysProxyState = 0
    /\ trayLabel = "Enable" /\ trayIcon = "[]byte{1}"
    /\ CallsBy("setStateOff", "background") # {}

\* C15: a failing proxy command neither blocks nor reverts a transition and
\* is not retried: every set-target, failed or not, is followed by exactly
\* one set-state-on of the same caller (pending only while background is
\* between the two commands); a toggle issues one disable or one pair of
\* enable commands per click; whenever background waits for a click the
\* state, the icon and the title are those of the number of clicks handled,
\* whatever the commands returned; and a run that reached Running exits
\* only by the Quit click or by returning from executeRun.
C15_FailedCommandsDoNotBlock ==
    /\ \A by \in {"main", "background"} :
          \A i \in CallsBy("setTarget", by) :
              LET following == { j \in CallsBy("setStateOn", by) :
                                    /\ j > i
                                    /\ \A k \in CallsBy("setTarget", by) : ~(i < k /\ k < j) }
                  pending == /\ by = "background" /\ bgPc = "enableState"
                             /\ \A k \in CallsBy("setTarget", by) : k <= i
              IN  Cardinality(following) = IF pending THEN 0 ELSE 1
    /\ Cardinality(CallsBy("setStateOff", "background"))
          + Cardinality(CallsBy("setTarget", "background")) <= clicks
    /\ bgPc = "select" =>
          <<sysProxyState, trayLabel, trayIcon>> =
              IF clicks % 2 = 1 THEN <<0, "Enable", "[]byte{1}">>
                                ELSE <<1, "Disable", "icon.Data">>
    /\ (exited /\ ReachedRunning) => (Calls("Quit") # {} \/ pc = "returned")

\* C15 witness: the set-target of a toggle failed, the set-state-on was
\* issued all the same, the tray shows Enabled and the process runs.
C15_Witness ==
    /\ ~exited /\ bgPc = "select" /\ clicks = 2
    /\ sysProxyState = 1 /\ trayLabel = "Disable" /\ trayIcon = "icon.Data"
    /\ \E i \in CallsBy("setTarget", "background") :
          /\ ~trace[i].ok
          /\ \E j \in CallsBy("setStateOn", "background") : j > i
    /\ \E i \in CallsBy("setStateOff", "background") : ~trace[i].ok

\* C16: when getConfigFilePath has returned the empty list (the home
\* directory cannot be resolved), the caller treats it as a fatal
\* configuration error, in dump, test and run mode alike: the server is
\* not started, the main flow does not go past the loading of the
\* configuration, and the process exits with code 23.
C16_EmptyResolutionIsFatal ==
    (resolved.called /\ ~resolved.fatal /\ resolved.files = <<>>) =>
        /\ Calls("Start") = {}
        /\ pc = "modes"
        /\ exited /\ exitCode = 23

\* C17: the signal listener and the tray (with background) are started only
\* after server.Start has returned successfully: whenever either goroutine
\* exists, a signal is buffered or the tray shows anything, Start has
\* succeeded and the main flow is at or past <-end; in a run with -dump or
\* -test, or with a failed load, build or Start, or a fatal directory read,
\* no listener is started and the tray is not shown.
C17_ListenersOnlyAfterStart ==
    LET started == \/ sigPc # "none" \/ trayPc # "none" \/ bgPc # "none"
                   \/ osSignals > 0
        shown   == trayIcon # "none" \/ trayLabel # "none"
    IN  /\ (started \/ shown) => (Succeeded("Start") /\ ReachedRunning)
        /\ (\/ dump \/ test \/ resolved.fatal
            \/ Failed("GetMergedConfig") \/ Failed("LoadConfig") \/ Failed("New")
            \/ Failed("Start")) => (~started /\ ~shown)

\* C17 witness: after a successful Start both listeners run and the tray is
\* shown.
C17_Witness ==
    /\ Succeeded("Start") /\ pc = "wait"
    /\ sigPc = "waiting" /\ trayPc = "running" /\ bgPc = "select"
    /\ trayIcon = "icon.Data"

\* C18: end is closed at most once, whatever the number of signals and
\* clicks: only the signal goroutine closes it, on the first signal it
\* receives, and the goroutine has then returned (a later signal stays in
\* the channel); no click closes it.
C18_EndClosedAtMostOnce ==
    /\ Cardinality(Calls("close(end)")) <= 1
    /\ \A i \in Calls("close(end)") : trace[i].by = "signal"
    /\ end = "closed" <=> Calls("close(end)") # {}
    /\ end = "closed" <=> sigPc = "done"
    /\ sigPc = "waiting" => osSignals <= OsSignalsCap
    /\ (Calls("Quit") # {} /\ sigPc # "done") => end = "open"

\* C18 witness: end was closed by the first signal, toggles have been
\* clicked, and a second signal has been delivered since.
C18_Witness ==
    /\ end = "closed" /\ sigPc = "done" /\ osSignals = 1
    /\ clicks >= 2
    /\ Cardinality(Calls("close(end)")) = 1

\* C19: once Running, a delivered signal leads to Terminated with the
\* server closed and the proxy disable issued: when the process has exited
\* after the signal goroutine closed end, server.Close and (on darwin) the
\* main flow's disable have been invoked; and without a signal or a Quit
\* click the main flow stays at <-end: it is past it only when end was
\* closed, and the process has exited only on one of the two.
C19_SignalLeadsToCleanExit ==
    /\ (exited /\ Calls("close(end)") # {}) =>
          /\ Calls("Close") # {}
          /\ goos = "darwin" => CallsBy("setStateOff", "main") # {}
    /\ (ReachedRunning /\ pc # "wait") => Calls("close(end)") # {}
    /\ (ReachedRunning /\ exited) => (Calls("close(end)") # {} \/ Calls("Quit") # {})

====
